---------------------------- MODULE Spec2Model ----------------------------
(***************************************************************************)
(* A model of the DirectX 12 native backend of chartx:                     *)
(*   - HandleManager (DX12Common.h): the mutex-guarded map from jlong      *)
(*     handles to reference-counted COM objects;                           *)
(*   - the JNI entry points of DX12Native.cpp that create, destroy,        *)
(*     record, submit and synchronise.                                     *)
(* The specifications share the registry definitions:                      *)
(*   SpecRegistry  several host threads inside createFence,                *)
(*                 getFenceCompletedValue and destroyFence, interleaved    *)
(*                 statement by statement around HandleManager's mutex;    *)
(*   SpecGpu       one host thread driving command lists, the queue and    *)
(*                 fences, with the GPU retiring the queue asynchronously; *)
(*   SpecOrder, SpecWait   parts of SpecGpu: recording and submission      *)
(*                 order, and signalling and waiting under fairness;       *)
(*   SpecFactory, SpecEntry, SpecDescriptor, SpecBarrier, SpecReadback,    *)
(*   SpecAdapter, SpecSlots   single entry points and short call           *)
(*                 sequences, each introduced where it is defined.         *)
(***************************************************************************)
EXTENDS Integers, Sequences, FiniteSets, TLC

-----------------------------------------------------------------------------
(* Bounds of the model.                                                    *)

\* Host threads calling into the backend concurrently (SpecRegistry).
NThreads == 2

\* COM objects the driver creates in one run (the device included).
MaxObj == 2

\* The largest value a caller passes to signalFence or waitForFence.
MaxFenceValue == 2

\* Submissions (lists and signals) pending on the queue at once.
MaxQueueLen == 2

\* Commands recorded into a list between reset and close.
MaxCmds == 2

Threads == 1..NThreads
Objects == 1..MaxObj
\* Handle values a caller may pass: 0, every value that can be issued, and
\* one value that never is.
MaxHandle == MaxObj + 1
Handles == 0..MaxHandle

\* nullptr, and the null handle store() returns for it.
NULL == 0

-----------------------------------------------------------------------------
VARIABLES
    \* HandleManager
    objects_,       \* std::unordered_map<jlong, IUnknown*>: handle -> object
    nextHandle_,    \* jlong nextHandle_
    mutex_,         \* std::mutex: 0 when free, else the thread holding it
    \* COM objects
    refCount,       \* the object's own atomic reference count
    objKind,        \* interface of the object: "none" until created
    nextObj,        \* the next object the driver will create
    \* host threads (SpecRegistry)
    pc,             \* where each thread is inside its entry point
    op,             \* the entry point the thread is running
    th,             \* the thread's handle argument
    tobj,           \* the thread's object pointer local
    \* history
    issuedCount,    \* how many store() calls returned each handle value
    issuedFor,      \* the object each handle value was first issued for
    erased,         \* handles whose mapping release() removed
    redone,         \* a release() of an already erased handle has returned
    \* command lists and the allocator (SpecGpu)
    listState,      \* "Closed" or "Recording" per ID3D12GraphicsCommandList
    listCmds,       \* the commands recorded since the last Reset
    listAlloc,      \* the allocator the list records into
    lastCall,       \* history: the caller's last state-changing call on
                    \* the list, "reset" for resetCommandList and "close"
                    \* for createCommandList or closeCommandList
    apiError,       \* a recording call reached a list that is not recording
    \* the queue and the fences
    queue,          \* submissions handed to the ID3D12CommandQueue, in order
    fenceVal,       \* ID3D12Fence::GetCompletedValue()
    fenceInit,      \* history: the initialValue passed to createFence
    sigMax,         \* history: the highest value passed so far for the fence
    \* the host thread inside waitForFence
    cpu,            \* "idle", "w_event" or "w_block"
    waitF, waitV,   \* the fence and the value waited for
    evArmed,        \* SetEventOnCompletion registered the event
    evSet,          \* the event is signalled
    \* history of the per-frame protocol, per allocator
    sync,           \* "idle", "submitted" or the <<fence, value>> guarding it
    hazard,         \* history: a reset that found the allocator idle by
                    \* the protocol took effect while it was in flight
    \* history: the calls as the caller made them
    callLog,        \* per list, the recording calls since its last reset
    submitted,      \* the submissions the GPU has not finished, in call order
    \* one call of an entry point on its own (the single-call specifications)
    call,           \* the entry point and its arguments
    result,         \* <<>> before the call returns, then <<what it returned>>
    outOfBounds,    \* history: the call read or addressed memory outside
                    \* the array or heap it was given
    \* resources and their usage states (SpecBarrier)
    resState,       \* per resource, the state the recorded commands leave it in
    declared,       \* per resource, the state the caller's bookkeeping holds
    mismatch,       \* history: a command or a barrier found a resource in a
                    \* state other than the one it names
    disciplined,    \* history: the caller has followed its bookkeeping
    psoDesc         \* history: the descriptor createPipelineState has built

regVars   == <<objects_, nextHandle_, mutex_>>
comVars   == <<refCount, objKind, nextObj>>
thrVars   == <<pc, op, th, tobj>>
histVars  == <<issuedCount, issuedFor, erased, redone>>
listVars  == <<listState, listCmds, listAlloc, lastCall, apiError>>
fenceVars == <<fenceVal, fenceInit, sigMax>>
waitVars  == <<cpu, waitF, waitV, evArmed, evSet>>
frameVars == <<sync, hazard>>
orderVars == <<callLog, submitted>>
gpuVars   == <<listVars, queue, fenceVars, waitVars, frameVars, orderVars>>
resVars   == <<resState, declared, mismatch, disciplined>>
callVars  == <<call, result, outOfBounds, resVars, psoDesc>>
vars      == <<regVars, comVars, thrVars, histVars, gpuVars, callVars>>

-----------------------------------------------------------------------------
(* HandleManager, statement by statement.                                  *)

\* nextHandle_++ leaves this value in nextHandle_.
SameHandleValue(n) == n
NextHandleValue(n) == n + 1

\* objects_[handle] = obj
Insert(m, h, o) == [k \in DOMAIN m \cup {h} |-> IF k = h THEN o ELSE m[k]]

\* it != objects_.end() after objects_.find(handle)
Found(m, h) == h \in DOMAIN m

\* get<T>: the mapped pointer, or nullptr
Lookup(m, h) == IF Found(m, h) THEN m[h] ELSE NULL

\* objects_.erase(it)
KeepEntry(m, h) == m
EraseEntry(m, h) == [k \in DOMAIN m \ {h} |-> m[k]]

\* obj->AddRef() and obj->Release() on the object's own counter
KeepCount(rc, o) == rc
AddRef(rc, o) == [rc EXCEPT ![o] = @ + 1]
Release(rc, o) == [rc EXCEPT ![o] = @ - 1]

\* HandleManager() : nextHandle_(1) {}
FirstHandle == 1


-----------------------------------------------------------------------------
(* SpecRegistry: host threads inside the entry points that use the         *)
(* registry.  An action is one step of one thread: entering a method up to *)
(* its lock_guard, the statements under the lock up to the unlock, or one  *)
(* statement outside the lock.                                             *)

\* The host threads are outside every entry point.
ThreadsIdle ==
    /\ pc = [t \in Threads |-> "idle"]
    /\ op = [t \in Threads |-> "none"]
    /\ th = [t \in Threads |-> 0]
    /\ tobj = [t \in Threads |-> NULL]

NoHistory ==
    /\ issuedCount = [h \in Handles |-> 0]
    /\ issuedFor = [h \in Handles |-> NULL]
    /\ erased = {}
    /\ redone = FALSE

\* The per-frame protocol's view of an allocator: nothing of it is
\* outstanding, work built from it was submitted, or a signalFence with a
\* fresh value followed that work.
Idle == <<"idle", NULL, 0>>
Submitted == <<"submitted", NULL, 0>>
Guarded(fence, value) == <<"signalled", fence, value>>

\* Nothing has been recorded, submitted or signalled.
GpuIdle(objs) ==
    /\ listState = [o \in objs |-> "none"]
    /\ listCmds = [o \in objs |-> <<>>]
    /\ listAlloc = [o \in objs |-> NULL]
    /\ lastCall = [o \in objs |-> "none"]
    /\ apiError = FALSE
    /\ queue = <<>>
    /\ fenceVal = [o \in objs |-> 0]
    /\ fenceInit = [o \in objs |-> 0]
    /\ sigMax = [o \in objs |-> 0]
    /\ cpu = "idle"
    /\ waitF = NULL
    /\ waitV = 0
    /\ evArmed = FALSE
    /\ evSet = FALSE
    /\ sync = [o \in objs |-> Idle]
    /\ hazard = FALSE
    /\ callLog = [o \in objs |-> <<>>]
    /\ submitted = <<>>

\* No single call is under way.
\* No resource is looked at.
NoResources ==
    /\ resState = <<>>
    /\ declared = <<>>
    /\ mismatch = FALSE
    /\ disciplined = TRUE

\* No pipeline state descriptor has been built.
NoDesc == [built |-> FALSE]

\* The call under observation has not returned.
Fresh ==
    /\ result = <<>>
    /\ outOfBounds = FALSE
    /\ NoResources
    /\ psoDesc = NoDesc

Nothing == [name |-> "none"]
NoCall ==
    /\ call = Nothing
    /\ Fresh

InitRegistry ==
    /\ objects_ = <<>>
    /\ nextHandle_ = FirstHandle
    /\ mutex_ = 0
    /\ refCount = [o \in Objects |-> 0]
    /\ objKind = [o \in Objects |-> "none"]
    /\ nextObj = 1
    /\ ThreadsIdle
    /\ NoHistory
    /\ GpuIdle(Objects)
    /\ NoCall

\* The thread returns to the host.
Return(t) ==
    /\ pc' = [pc EXCEPT ![t] = "idle"]
    /\ op' = [op EXCEPT ![t] = "none"]
    /\ th' = [th EXCEPT ![t] = 0]
    /\ tobj' = [tobj EXCEPT ![t] = NULL]

\* The driver hands back a new object of the given interface holding the
\* creation reference (IID_PPV_ARGS(&raw pointer)).
DriverCreates(t, k) ==
    /\ nextObj <= MaxObj
    /\ refCount' = [refCount EXCEPT ![nextObj] = 1]
    /\ objKind' = [objKind EXCEPT ![nextObj] = k]
    /\ nextObj' = nextObj + 1
    /\ tobj' = [tobj EXCEPT ![t] = nextObj]
    /\ pc' = [pc EXCEPT ![t] = "st_addref"]

\* createDevice: an adapter's D3D12CreateDevice succeeds and the device goes
\* to STORE_HANDLE, or no adapter qualifies and the call returns 0.
CreateDevice(t) ==
    /\ pc[t] = "idle"
    /\ \/ /\ DriverCreates(t, "device")
          /\ op' = [op EXCEPT ![t] = "createDevice"]
          /\ UNCHANGED th
       \/ /\ Return(t)
          /\ UNCHANGED comVars
    /\ UNCHANGED <<regVars, histVars, gpuVars, callVars>>

\* An entry point is entered with handle h and reaches the lock_guard of
\* the HandleManager method it calls first.
Enter(t, name, h, at) ==
    /\ pc[t] = "idle"
    /\ mutex_ = 0
    /\ mutex_' = t
    /\ pc' = [pc EXCEPT ![t] = at]
    /\ op' = [op EXCEPT ![t] = name]
    /\ th' = [th EXCEPT ![t] = h]
    /\ UNCHANGED <<objects_, nextHandle_, tobj, comVars, histVars, gpuVars,
                   callVars>>

\* createFence(deviceHandle, initialValue): GET_HANDLE(ID3D12Device, ...)
CallCreateFence(t, h) == Enter(t, "createFence", h, "get_body")

\* getFenceCompletedValue(fenceHandle) is entered.
CallGetFenceCompletedValue(t, h) ==
    Enter(t, "getFenceCompletedValue", h, "get_body")

\* destroyFence(fence) (and every other destroy*) is entered.
CallDestroy(t, h) == Enter(t, "destroy", h, "rel_body")

\* store: std::lock_guard<std::mutex> lock(mutex_)
StoreLock(t) ==
    /\ pc[t] = "st_lock"
    /\ mutex_ = 0
    /\ mutex_' = t
    /\ pc' = [pc EXCEPT ![t] = "st_body"]
    /\ UNCHANGED <<objects_, nextHandle_, op, th, tobj, comVars, histVars,
                   gpuVars, callVars>>

\* A get that hands out an owning pointer: it calls AddRef on what it finds.
GetBodyOwning(t) ==
    /\ pc[t] = "get_body"
    /\ mutex_ = t
    /\ tobj' = [tobj EXCEPT ![t] = Lookup(objects_, th[t])]
    /\ refCount' = IF Found(objects_, th[t])
                   THEN AddRef(refCount, objects_[th[t]])
                   ELSE refCount
    /\ mutex_' = 0
    /\ pc' = [pc EXCEPT ![t] = IF op[t] = "createFence" THEN "cf_create"
                                                        ELSE "gf_use"]
    /\ th' = [th EXCEPT ![t] = IF op[t] = "createFence" THEN 0 ELSE @]
    /\ UNCHANGED <<objects_, nextHandle_, op, objKind, nextObj, histVars,
                   gpuVars, callVars>>

\* get<T>: find, return the pointer or nullptr; the lock_guard unlocks.
GetBody(t) ==
    /\ pc[t] = "get_body"
    /\ mutex_ = t
    /\ tobj' = [tobj EXCEPT ![t] = Lookup(objects_, th[t])]
    /\ mutex_' = 0
    /\ pc' = [pc EXCEPT ![t] = IF op[t] = "createFence" THEN "cf_create"
                                                        ELSE "gf_use"]
    /\ th' = [th EXCEPT ![t] = IF op[t] = "createFence" THEN 0 ELSE @]
    /\ UNCHANGED <<objects_, nextHandle_, op, comVars, histVars, gpuVars,
                   callVars>>

\* createFence after GET_HANDLE: if (!device) return 0; device->CreateFence
\* fails (return 0) or yields the fence, which goes to STORE_HANDLE.
CreateFenceCreate(t) ==
    /\ pc[t] = "cf_create"
    /\ IF tobj[t] = NULL
         THEN Return(t) /\ UNCHANGED comVars
         ELSE \/ DriverCreates(t, "fence") /\ UNCHANGED <<op, th>>
              \/ Return(t) /\ UNCHANGED comVars
    /\ UNCHANGED <<regVars, histVars, gpuVars, callVars>>

\* getFenceCompletedValue after GET_HANDLE:
\* return fence ? fence->GetCompletedValue() : 0
GetFenceUse(t) ==
    /\ pc[t] = "gf_use"
    /\ Return(t)
    /\ UNCHANGED <<regVars, comVars, histVars, gpuVars, callVars>>

\* store: obj->AddRef(), before the lock is taken.
StoreAddRef(t) ==
    /\ pc[t] = "st_addref"
    /\ refCount' = AddRef(refCount, tobj[t])
    /\ pc' = [pc EXCEPT ![t] = "st_lock"]
    /\ UNCHANGED <<objKind, nextObj, op, th, tobj, regVars, histVars,
                   gpuVars, callVars>>

\* store under the lock: handle = nextHandle_++; objects_[handle] = obj;
\* return handle.
StoreBody(t) ==
    /\ pc[t] = "st_body"
    /\ mutex_ = t
    /\ LET handle == nextHandle_ IN
         /\ nextHandle_' = NextHandleValue(nextHandle_)
         /\ objects_' = Insert(objects_, handle, tobj[t])
         /\ issuedCount' = [issuedCount EXCEPT ![handle] = @ + 1]
         /\ issuedFor' = [issuedFor EXCEPT ![handle] =
                             IF @ = NULL THEN tobj[t] ELSE @]
    /\ mutex_' = 0
    /\ Return(t)
    /\ UNCHANGED <<comVars, erased, redone, gpuVars, callVars>>

\* release under the lock: find; if found, it->second->Release() and
\* objects_.erase(it).
ReleaseBody(t) ==
    /\ pc[t] = "rel_body"
    /\ mutex_ = t
    /\ IF Found(objects_, th[t])
         THEN /\ refCount' = Release(refCount, objects_[th[t]])
              /\ objects_' = EraseEntry(objects_, th[t])
              /\ erased' = erased \cup {th[t]}
         ELSE UNCHANGED <<refCount, objects_, erased>>
    /\ redone' = (redone \/ th[t] \in erased)
    /\ mutex_' = 0
    /\ Return(t)
    /\ UNCHANGED <<nextHandle_, objKind, nextObj, issuedCount, issuedFor,
                   gpuVars, callVars>>

NextRegistry ==
    \E t \in Threads :
        \/ CreateDevice(t)
        \/ \E h \in Handles : CallCreateFence(t, h)
        \/ \E h \in Handles : CallGetFenceCompletedValue(t, h)
        \/ \E h \in Handles : CallDestroy(t, h)
        \/ StoreLock(t)
        \/ GetBody(t)
        \/ CreateFenceCreate(t)
        \/ GetFenceUse(t)
        \/ StoreAddRef(t)
        \/ StoreBody(t)
        \/ ReleaseBody(t)

SpecRegistry == InitRegistry /\ [][NextRegistry]_vars

RegistryTypeOK ==
    /\ DOMAIN objects_ \subseteq 1..MaxHandle
    /\ \A h \in DOMAIN objects_ : objects_[h] \in Objects
    /\ nextHandle_ \in 1..(MaxObj + 1)
    /\ mutex_ \in 0..NThreads
    /\ \A o \in Objects : refCount[o] \in 0..2


-----------------------------------------------------------------------------
(* Claims about the registry, checked under SpecRegistry.                  *)

\* Handles get() finds nothing for by the contract: the null handle and the
\* values store() has not issued yet.
NeverIssued(h) == h = 0 \/ h >= nextHandle_

\* C1: under every interleaving of store and release no handle value is
\* issued twice: no two store() calls return the same handle, and every
\* live handle maps to the one object it was issued for.
C1_HandleUniqueness ==
    /\ \A h \in Handles : issuedCount[h] <= 1
    /\ \A h \in DOMAIN objects_ : h # 0 /\ objects_[h] = issuedFor[h]

\* A store() that followed a release(): handle 1 is gone, handle 2 is live.
C1_Witness ==
    /\ 1 \in erased
    /\ 2 \in DOMAIN objects_
    /\ issuedCount[1] = 1 /\ issuedCount[2] = 1

\* C2: a get() that runs on a released or never-issued handle (0 included)
\* returns nullptr, whatever store/release calls came in between.
C2_GetReleasedIsNull ==
    [][\A t \in Threads :
         (pc[t] = "get_body" /\ pc'[t] # "get_body"
            /\ (th[t] \in erased \/ NeverIssued(th[t])))
         => tobj'[t] = NULL]_vars

\* getFenceCompletedValue holds the nullptr get() returned for a handle
\* that had been issued and released.
C2_Witness ==
    \E t \in Threads :
        /\ pc[t] = "gf_use"
        /\ th[t] \in erased
        /\ issuedCount[th[t]] = 1
        /\ tobj[t] = NULL

\* C3: once a factory has returned handle h and the destroy call for h has
\* returned, the object's reference count (creation reference plus
\* registry reference) is zero.
C3_NoObjectOutlivesHandle ==
    \A h \in erased :
        issuedCount[h] >= 1 => refCount[issuedFor[h]] = 0

\* C4: the first destroy of a live handle drops exactly one reference and
\* the mapping; a destroy of an already-released, unknown or zero handle
\* leaves the map, the counter and every reference count as they were.
C4_DestroyIdempotent ==
    [][\A t \in Threads :
         (pc[t] = "rel_body" /\ pc'[t] = "idle") =>
            IF th[t] \in erased \/ NeverIssued(th[t])
              THEN UNCHANGED <<objects_, nextHandle_, refCount>>
              ELSE /\ th[t] \notin DOMAIN objects_'
                   /\ \A o \in Objects :
                        refCount'[o] = IF o = objects_[th[t]]
                                         THEN refCount[o] - 1
                                         ELSE refCount[o]]_vars

\* A second destroy of a released handle has returned.
C4_Witness ==
    /\ redone
    /\ \E h \in erased : issuedCount[h] = 1 /\ h \notin DOMAIN objects_


(***************************************************************************)
(* The frame loop: one host thread, one queue, the GPU.                    *)
(*                                                                         *)
(* SpecGpu starts after the start-up calls createDevice,                   *)
(* createCommandQueue, createCommandAllocator, createCommandList and       *)
(* createFence(device, initialValue) have returned: their objects were     *)
(* stored in this order, so they hold the handles 1 to 5, each with the    *)
(* driver's creation reference and the registry's reference.  Every entry  *)
(* point below runs on the one host thread that renders, so its registry   *)
(* calls are taken as one step; the GPU retires the queue's submissions in *)
(* between.                                                                *)
(***************************************************************************)

DeviceObj == 1
QueueObj == 2
AllocObj == 3
ListObj == 4
FenceObj == 5
RootSigObj == 6
GpuObjects == DeviceObj..FenceObj
GpuHandles == 0..FenceObj

\* A handle the registry never issued.
UnknownHandle == RootSigObj + 1
FenceValues == 0..MaxFenceValue

\* The values a caller passes to createFence as initialValue.
InitialValues == {0, 1}

\* createCommandList: commandList->Close() before the handle is returned.
CreatedListOpen == "Recording"
CreatedListState == "Closed"

\* createFence passes initialValue on to ID3D12Device::CreateFence.
FenceInitialZero(initialValue) == 0
FenceInitial(initialValue) == initialValue

ObjectKind(o) ==
    CASE o = DeviceObj -> "device"
      [] o = QueueObj -> "queue"
      [] o = AllocObj -> "allocator"
      [] o = ListObj -> "list"
      [] o = FenceObj -> "fence"

\* The state after the creations, the handles in gone released since.
GpuStart(gone) ==
    /\ objects_ = [h \in GpuObjects \ gone |-> h]
    /\ nextHandle_ = FenceObj + 1
    /\ mutex_ = 0
    /\ refCount = [o \in GpuObjects |-> 2]
    /\ objKind = [o \in GpuObjects |-> ObjectKind(o)]
    /\ nextObj = FenceObj + 1
    /\ ThreadsIdle
    /\ NoHistory
    /\ listState = [o \in GpuObjects |->
                       IF o = ListObj THEN CreatedListState ELSE "none"]
    /\ listCmds = [o \in GpuObjects |-> <<>>]
    /\ listAlloc = [o \in GpuObjects |-> IF o = ListObj THEN AllocObj ELSE NULL]
    /\ lastCall = [o \in GpuObjects |-> IF o = ListObj THEN "close" ELSE "none"]
    /\ apiError = FALSE
    /\ queue = <<>>
    /\ \E initialValue \in InitialValues :
          /\ fenceVal = [o \in GpuObjects |->
                IF o = FenceObj THEN FenceInitial(initialValue) ELSE 0]
          /\ fenceInit = [o \in GpuObjects |->
                IF o = FenceObj THEN initialValue ELSE 0]
          /\ sigMax = fenceInit
    /\ cpu = "idle"
    /\ waitF = NULL
    /\ waitV = 0
    /\ evArmed = FALSE
    /\ evSet = FALSE
    /\ sync = [o \in GpuObjects |-> Idle]
    /\ hazard = FALSE
    /\ callLog = [o \in GpuObjects |-> <<>>]
    /\ submitted = <<>>

InitGpu == GpuStart({}) /\ NoCall

\* The handles a caller passes where an object of the kind is expected: the
\* handle of such an object, or one the registry does not hold (zero,
\* released or never issued).
HandlesFor(kind) ==
    {h \in 0..UnknownHandle :
        IF Found(objects_, h) THEN objKind[objects_[h]] = kind ELSE TRUE}

\* Neither has the runtime flagged an invalid call nor has a reset hit
\* memory the GPU reads.  What happens after either is not defined, and the
\* model follows such a run no further.
Running == ~apiError /\ ~hazard

\* The host thread is outside waitForFence and can call an entry point.
Callable == cpu = "idle" /\ Running

\* The call is made with handles of these kinds.
Call1(h1, k1) == Callable /\ h1 \in HandlesFor(k1)
Call2(h1, k1, h2, k2) == Call1(h1, k1) /\ h2 \in HandlesFor(k2)

\* A call under observation is the one the entry point is entered with.
EntryCall(name, h1, h2, value) ==
    [name |-> name, h1 |-> h1, h2 |-> h2, value |-> value]
Invoked(name, h1, h2, value) ==
    IF call = Nothing
    THEN TRUE
    ELSE result = <<>> /\ call = EntryCall(name, h1, h2, value)

\* The entry point returns v (0 standing for a void return).
Returns(v) ==
    /\ result' = IF call = Nothing THEN result ELSE <<v>>
    /\ UNCHANGED <<call, outOfBounds, resVars, psoDesc>>

\* An entry point that finds a handle invalid returns without any effect.
NoEffect ==
    /\ Returns(0)
    /\ UNCHANGED <<regVars, comVars, thrVars, histVars, gpuVars>>

\* A submission built from the allocator is pending on the queue.
InFlight(allocator) ==
    \E i \in 1..Len(queue) :
        queue[i].t = "exec" /\ queue[i].alloc = allocator

Max(a, b) == IF a >= b THEN a ELSE b

\* resetCommandAllocator(allocatorHandle): ID3D12CommandAllocator::Reset()
\* is refused while a list is recording into the allocator and otherwise
\* reclaims the allocator's memory, in flight or not.
ResetCommandAllocator(ah) ==
    /\ Call1(ah, "allocator")
    /\ LET allocator == Lookup(objects_, ah)
           recording == \E l \in GpuObjects :
                           /\ listState[l] = "Recording"
                           /\ listAlloc[l] = allocator
       IN IF allocator = NULL
          THEN NoEffect
          ELSE /\ hazard' = (hazard \/ (/\ ~recording
                                          /\ sync[allocator] = Idle
                                          /\ InFlight(allocator)))
               /\ UNCHANGED <<sync, regVars, comVars, thrVars, callVars,
                              histVars, listVars, queue, fenceVars, waitVars,
                              orderVars>>

\* resetCommandList(commandListHandle, allocatorHandle, pipelineStateHandle):
\* ID3D12GraphicsCommandList::Reset(allocator, pso) is refused unless the
\* list is closed and no other list is recording into the allocator.
ResetCommandList(lh, ah) ==
    /\ Call2(lh, "list", ah, "allocator")
    /\ Invoked("resetCommandList", lh, ah, 0)
    /\ LET commandList == Lookup(objects_, lh)
           allocator == Lookup(objects_, ah)
           ok == /\ listState[commandList] = "Closed"
                 /\ \A l \in GpuObjects :
                       ~(listState[l] = "Recording" /\ listAlloc[l] = allocator)
       IN IF commandList = NULL \/ allocator = NULL
          THEN NoEffect
          ELSE /\ listState' = IF ok
                     THEN [listState EXCEPT ![commandList] = "Recording"]
                     ELSE listState
               /\ listCmds' = IF ok
                     THEN [listCmds EXCEPT ![commandList] = <<>>]
                     ELSE listCmds
               /\ listAlloc' = IF ok
                     THEN [listAlloc EXCEPT ![commandList] = allocator]
                     ELSE listAlloc
               /\ lastCall' = [lastCall EXCEPT ![commandList] = "reset"]
               /\ hazard' = (hazard \/ (/\ ok
                                          /\ sync[allocator] = Idle
                                          /\ InFlight(allocator)))
               /\ callLog' = IF ok
                     THEN [callLog EXCEPT ![commandList] = <<>>]
                     ELSE callLog
               /\ Returns(0)
               /\ UNCHANGED <<apiError, sync, regVars, comVars, thrVars,
                              histVars, queue, fenceVars, waitVars,
                              submitted>>

\* closeCommandList(commandListHandle): ID3D12GraphicsCommandList::Close()
CloseCommandList(lh) ==
    /\ Call1(lh, "list")
    /\ LET commandList == Lookup(objects_, lh)
       IN IF commandList = NULL
          THEN NoEffect
          ELSE /\ listState' = [listState EXCEPT ![commandList] = "Closed"]
               /\ lastCall' = [lastCall EXCEPT ![commandList] = "close"]
               /\ UNCHANGED <<listCmds, listAlloc, apiError, regVars, comVars,
                              thrVars, callVars, histVars, queue, fenceVars,
                              waitVars, frameVars, orderVars>>

\* A recording entry point: if (commandList) commandList->X(...).  The call
\* is forwarded whatever the state of the list.  A recording list appends
\* the command.  For a list that is not recording the call is outside the
\* contract of ID3D12GraphicsCommandList: the runtime may drop it, or flag
\* the invalid call (apiError).
RecordOnList(lh, c) ==
    /\ Call1(lh, "list")
    /\ LET commandList == Lookup(objects_, lh)
       IN IF commandList = NULL
          THEN NoEffect
          ELSE IF listState[commandList] = "Recording"
               THEN /\ Len(listCmds[commandList]) < MaxCmds
                    /\ listCmds' = [listCmds EXCEPT
                                       ![commandList] = Append(@, c)]
                    /\ callLog' = [callLog EXCEPT ![commandList] = Append(@, c)]
                    /\ UNCHANGED <<listState, listAlloc, lastCall, apiError,
                                   regVars, comVars, thrVars, callVars,
                                   histVars, queue, fenceVars, waitVars,
                                   frameVars, submitted>>
               ELSE \/ NoEffect
                    \/ /\ apiError' = TRUE
                       /\ UNCHANGED <<listState, listCmds, listAlloc, lastCall,
                                      regVars, comVars, thrVars, callVars,
                                      histVars, queue, fenceVars, waitVars,
                                      frameVars, orderVars>>

\* drawInstanced(commandListHandle, ...)
DrawInstanced(lh) == RecordOnList(lh, "drawInstanced")

\* setViewport(commandListHandle, ...)
SetViewport(lh) == RecordOnList(lh, "setViewport")

\* A submission on the queue.  state, protocol, owes and fresh are history:
\* the state of the list when it was handed over, whether the caller's last
\* create/reset/close call on it was not a reset, the <<fence, value,
\* fresh>> of every signalFence called while the submission was pending,
\* and whether a signal's value was above the fence's initial value and
\* every value signalled on it before.
ExecItem(commandList) ==
    [t |-> "exec", obj |-> commandList, value |-> 0,
     alloc |-> listAlloc[commandList],
     state |-> listState[commandList],
     protocol |-> lastCall[commandList] # "reset",
     owes |-> {}, fresh |-> FALSE]

SignalItem(fence, value, fresh) ==
    [t |-> "signal", obj |-> fence, value |-> value, alloc |-> NULL,
     state |-> "none", protocol |-> TRUE, owes |-> {}, fresh |-> fresh]

\* One submission, as the caller made it.
Submission(t, obj, value) == [t |-> t, obj |-> obj, value |-> value]

\* A queue that would take a new submission ahead of the waiting ones.
SubmitFront(q, item) == <<item>> \o q

\* ID3D12CommandList* lists[] = { commandList };
\* queue->ExecuteCommandLists(1, lists);
SubmitLists(q, item) == Append(q, item)

\* executeCommandList(queueHandle, commandListHandle): no check of the
\* list's state.
ExecuteCommandList(qh, lh) ==
    /\ Call2(qh, "queue", lh, "list")
    /\ Invoked("executeCommandList", qh, lh, 0)
    /\ LET queue_ == Lookup(objects_, qh)
           commandList == Lookup(objects_, lh)
       IN IF queue_ = NULL \/ commandList = NULL
          THEN NoEffect
          ELSE /\ Len(queue) < MaxQueueLen
               /\ queue' = SubmitLists(queue, ExecItem(commandList))
               /\ sync' = [sync EXCEPT ![listAlloc[commandList]] = Submitted]
               /\ submitted' = Append(submitted,
                                      Submission("exec", commandList, 0))
               /\ Returns(0)
               /\ UNCHANGED <<hazard, regVars, comVars, thrVars,
                              histVars, listVars, fenceVars, waitVars,
                              callLog>>

\* queue->Signal(fence, value): the signal is queued behind the work
\* submitted so far.  (SignalOnCpu is fence->Signal(value).)
SignalOnCpu(q, fv, item) ==
    [q |-> q, fv |-> [fv EXCEPT ![item.obj] = item.value]]
SubmitSignal(q, fv, item) ==
    [q |-> Append(q, item), fv |-> fv]

\* signalFence(queueHandle, fenceHandle, value)
SignalFence(qh, fh, value) ==
    /\ Call2(qh, "queue", fh, "fence")
    /\ Invoked("signalFence", qh, fh, value)
    /\ LET queue_ == Lookup(objects_, qh)
           fence == Lookup(objects_, fh)
           fresh == value > sigMax[fence]
           marked == [i \in 1..Len(queue) |->
                        IF queue[i].t = "exec"
                        THEN [queue[i] EXCEPT
                                 !.owes = @ \cup {<<fence, value, fresh>>}]
                        ELSE queue[i]]
           r == SubmitSignal(marked, fenceVal,
                             SignalItem(fence, value, fresh))
       IN IF queue_ = NULL \/ fence = NULL
          THEN NoEffect
          ELSE /\ Len(queue) < MaxQueueLen
               /\ queue' = r.q
               /\ fenceVal' = r.fv
               /\ sigMax' = [sigMax EXCEPT ![fence] = Max(@, value)]
               /\ sync' = [a \in DOMAIN sync |->
                              IF sync[a] = Submitted /\ fresh
                              THEN Guarded(fence, value)
                              ELSE sync[a]]
               /\ submitted' = Append(submitted,
                                      Submission("signal", fence, value))
               /\ Returns(0)
               /\ UNCHANGED <<fenceInit, hazard, regVars, comVars,
                              thrVars, histVars, listVars, waitVars,
                              callLog>>

\* waitForFence returns to the caller.
WaitReturn(fence, value) ==
    /\ cpu' = "idle"
    /\ waitF' = NULL
    /\ waitV' = 0
    /\ evArmed' = FALSE
    /\ evSet' = FALSE
    /\ sync' = [a \in DOMAIN sync |->
                   IF sync[a] = Guarded(fence, value) THEN Idle ELSE sync[a]]
    /\ Returns(0)
    /\ UNCHANGED <<hazard, regVars, comVars, thrVars, histVars,
                   listVars, queue, fenceVars, orderVars>>

\* waitForFence(fenceHandle, value):
\* if (fence && fence->GetCompletedValue() < value) { ... }
WaitForFence(fh, value) ==
    /\ Call1(fh, "fence")
    /\ Invoked("waitForFence", fh, 0, value)
    /\ LET fence == Lookup(objects_, fh)
       IN IF fence = NULL
          THEN NoEffect
          ELSE IF fenceVal[fence] < value
               THEN /\ cpu' = "w_event"
                    /\ waitF' = fence
                    /\ waitV' = value
                    /\ UNCHANGED <<evArmed, evSet, frameVars, regVars,
                                   comVars, thrVars, callVars, histVars,
                                   listVars, queue, fenceVars, orderVars>>
               ELSE WaitReturn(fence, value)

\* HANDLE event = CreateEvent(nullptr, FALSE, FALSE, nullptr);
\* if (event) { fence->SetEventOnCompletion(value, event); ... }
\* With no event the call returns.  With an event, the registration either
\* succeeds (and sets the event at once if the value is reached) or fails,
\* and its HRESULT is not looked at: nothing will set the event.
WaitCreateEvent ==
    /\ cpu = "w_event"
    /\ Running
    /\ \/ WaitReturn(waitF, waitV)
       \/ /\ cpu' = "w_block"
          /\ \/ /\ evArmed' = TRUE
                /\ evSet' = (fenceVal[waitF] >= waitV)
             \/ UNCHANGED <<evArmed, evSet>>
          /\ UNCHANGED <<waitF, waitV, frameVars, regVars, comVars, thrVars,
                         callVars, histVars, listVars, queue, fenceVars,
                         orderVars>>

\* WaitForSingleObject(event, INFINITE); CloseHandle(event);
WaitForSingleObject ==
    /\ cpu = "w_block"
    /\ Running
    /\ evSet
    /\ WaitReturn(waitF, waitV)

\* return fence ? fence->GetCompletedValue() : 0;
CompletedOrOne(fence) == IF fence = NULL THEN 1 ELSE fenceVal[fence]
CompletedOrZero(fence) == IF fence = NULL THEN 0 ELSE fenceVal[fence]

\* getFenceCompletedValue(fenceHandle)
GetFenceCompletedValue(fh) ==
    /\ Call1(fh, "fence")
    /\ Invoked("getFenceCompletedValue", fh, 0, 0)
    /\ Returns(CompletedOrZero(Lookup(objects_, fh)))
    /\ UNCHANGED <<regVars, comVars, thrVars, histVars, gpuVars>>

\* The GPU finishes the oldest submission of the queue: a list's commands
\* have run, or a signal sets the fence to its value and sets the event
\* registered for a value it reaches.
GpuRetire ==
    /\ Running
    /\ queue # <<>>
    /\ queue' = Tail(queue)
    /\ LET item == Head(queue)
       IN IF item.t = "signal"
          THEN /\ fenceVal' = [fenceVal EXCEPT ![item.obj] = item.value]
               /\ evSet' = (evSet \/ (/\ evArmed
                                      /\ waitF = item.obj
                                      /\ item.value >= waitV))
          ELSE UNCHANGED <<fenceVal, evSet>>
    /\ submitted' = Tail(submitted)
    /\ UNCHANGED <<fenceInit, sigMax, cpu, waitF, waitV, evArmed,
                   frameVars, regVars, comVars, thrVars, callVars, histVars,
                   listVars, callLog>>

NextGpu ==
    \/ \E ah \in GpuHandles : ResetCommandAllocator(ah)
    \/ \E lh, ah \in GpuHandles : ResetCommandList(lh, ah)
    \/ \E lh \in GpuHandles : CloseCommandList(lh)
    \/ \E lh \in GpuHandles : DrawInstanced(lh)
    \/ \E qh, lh \in GpuHandles : ExecuteCommandList(qh, lh)
    \/ \E qh, fh \in GpuHandles, v \in FenceValues : SignalFence(qh, fh, v)
    \/ \E fh \in GpuHandles, v \in FenceValues : WaitForFence(fh, v)
    \/ WaitCreateEvent
    \/ WaitForSingleObject
    \/ GpuRetire

SpecGpu == InitGpu /\ [][NextGpu]_vars

\* Recording with two kinds of command, submitting, and the GPU.  Two
\* signal values are enough to tell one signal from another.
SignalValues == {1, 2}

NextOrder ==
    \/ \E lh, ah \in GpuHandles : ResetCommandList(lh, ah)
    \/ \E lh \in GpuHandles : CloseCommandList(lh)
    \/ \E lh \in GpuHandles : DrawInstanced(lh)
    \/ \E lh \in GpuHandles : SetViewport(lh)
    \/ \E qh, lh \in GpuHandles : ExecuteCommandList(qh, lh)
    \/ \E qh, fh \in GpuHandles, v \in SignalValues : SignalFence(qh, fh, v)
    \/ GpuRetire

SpecOrder == InitGpu /\ [][NextOrder]_vars

GpuTypeOK ==
    /\ \A h \in DOMAIN objects_ : objects_[h] = h /\ objKind[h] # "none"
    /\ fenceVal[FenceObj] \in FenceValues
    /\ \A o \in GpuObjects :
          /\ listState[o] \in {"none", "Closed", "Recording"}
          /\ (objKind[o] = "list") = (listState[o] # "none")
          /\ Len(listCmds[o]) <= MaxCmds
          /\ fenceVal[o] \in FenceValues
          /\ sigMax[o] \in FenceValues
    /\ Len(queue) <= MaxQueueLen
    /\ cpu \in {"idle", "w_event", "w_block"}


(***************************************************************************)
(* Fences and the queue.                                                   *)
(***************************************************************************)

\* C5: waitForFence(fence, V) on a valid fence never returns early: it
\* does not return while the fence has not reached V, whether it took the
\* immediate path or the event path, and also when the event cannot be
\* created or registered.  (On the event path the fence has reached V when
\* the registered event is set.)
C5_WaitNeverReturnsEarly ==
    [][(cpu # "idle" /\ cpu' = "idle")
          => (evSet \/ fenceVal[waitF] >= waitV)]_vars

\* The signals called for while a submitted list was pending.
Owed(i) == IF queue[i].t = "exec" THEN queue[i].owes ELSE {}

\* C6: after signalFence(queue, fence, V) the completed value of the fence
\* is never V while a command list submitted to the queue before that call
\* is still pending or executing.
C6_SignalAfterEarlierWork ==
    \A i \in 1..Len(queue) : \A s \in Owed(i) : fenceVal[s[1]] # s[2]

\* C6, with the condition it needs: the same, for a value V greater than the
\* fence's initial value and every value passed to signalFence for that
\* fence before.
C6_FreshSignalAfterEarlierWork ==
    \A i \in 1..Len(queue) : \A s \in Owed(i) : s[3] => fenceVal[s[1]] # s[2]

\* A list is pending with a fresh signal queued behind it, and the fence
\* has moved before.
C6_Witness ==
    /\ Len(queue) >= 2
    /\ queue[1].t = "exec"
    /\ queue[2].t = "signal" /\ queue[2].fresh
    /\ <<queue[2].obj, queue[2].value, TRUE>> \in queue[1].owes
    /\ fenceVal[FenceObj] > fenceInit[FenceObj]

\* C7: the completed value of a fence never decreases from one read to the
\* next.
C7_CompletedValueNeverDecreases ==
    [][\A f \in GpuObjects : fenceVal'[f] >= fenceVal[f]]_vars

\* C7, with the condition it needs: the completed value starts at the
\* initialValue given to createFence, and it decreases only when the GPU
\* reaches a signal whose value was not greater than the initial value and
\* every value passed to signalFence for that fence before.
C7_DecreasesOnlyByStaleSignal ==
    /\ \A f \in GpuObjects : fenceVal[f] = fenceInit[f]
    /\ [][\A f \in GpuObjects :
             fenceVal'[f] < fenceVal[f]
                => /\ queue # <<>>
                   /\ Head(queue).t = "signal"
                   /\ Head(queue).obj = f
                   /\ ~Head(queue).fresh]_vars

\* The fence has gone from 0 to 1 by a signal and the next fresh signal is
\* the GPU's next submission.
C7_Witness ==
    /\ fenceInit[FenceObj] = 0
    /\ fenceVal[FenceObj] = 1
    /\ queue # <<>>
    /\ Head(queue).t = "signal"
    /\ Head(queue).fresh
    /\ Head(queue).value > 1

(***************************************************************************)
(* Command lists and the allocator.                                        *)
(***************************************************************************)

\* C8: a caller that follows the per-frame protocol (after a submission
\* built from an allocator: signalFence with a fresh value V, then
\* waitForFence(fence, V) returned, and only then a reset) never resets the
\* allocator, or a list onto it, while a submission built from it is in
\* flight.
C8_ProtocolKeepsResetsOutOfFlight == ~hazard

\* C9: a list is Closed when createCommandList returns and after
\* closeCommandList, it is Recording only after resetCommandList, and a
\* recording entry point called on a list that is not Recording is a no-op
\* that causes no error state.
C9_RecordingOnlyWhenRecording ==
    /\ \A l \in GpuObjects :
          /\ lastCall[l] = "close" => listState[l] = "Closed"
          /\ listState[l] = "Recording" => lastCall[l] = "reset"
    /\ ~apiError

\* C10: every list handed to the queue by executeCommandList is Closed.
C10_OnlyClosedListsSubmitted ==
    \A i \in 1..Len(queue) :
        queue[i].t = "exec" => queue[i].state = "Closed"

\* C10, with the condition it needs: executeCommandList hands one list at
\* a time to the queue, and that list is Closed if the caller's last
\* createCommandList, resetCommandList or closeCommandList call on it was
\* not resetCommandList.
C10_ClosedWhenCallerClosed ==
    /\ [](\A i \in 1..Len(queue) :
             (queue[i].t = "exec" /\ queue[i].protocol)
                => queue[i].state = "Closed")
    /\ [][Len(queue') <= Len(queue) + 1]_vars

\* A list that was reset, recorded into and closed is pending on the queue.
C10_Witness ==
    \E i \in 1..Len(queue) :
        /\ queue[i].t = "exec"
        /\ queue[i].protocol
        /\ queue[i].state = "Closed"
        /\ lastCall[queue[i].obj] = "close"
        /\ listCmds[queue[i].obj] # <<>>


\* ------------------------------------------------------------------------
\* C11  Execution order is recording and submission order: a list holds its
\* commands in the order of the recording calls made since its reset, and
\* the queue holds the lists and fence signals in the order executeCommandList
\* and signalFence were called, the GPU taking them from the front.
OfQueue(item) == Submission(item.t, item.obj, item.value)

-----------------------------------------------------------------------------
(* SpecFactory: one call of a factory that takes a device handle, made by  *)
(* one thread on a registry that holds a device, an allocator and a root   *)
(* signature, some of them already released.                               *)

\* Attributes of a vertex layout (lengths of formats[] and offsets[]).
MaxAttrs == 2

FactoryObjects == GpuObjects \cup {RootSigObj}

FactoryKind(o) == IF o = RootSigObj THEN "rootSignature" ELSE ObjectKind(o)

\* The factories whose only handle is the device.  The checked ones test
\* the HRESULT of the creation; the others hand the out-pointer of the
\* creation, null when it failed, straight to STORE_HANDLE.
CheckedFactories ==
    {"createCommandQueue", "createCommandAllocator", "createFence",
     "createRenderTarget", "createReadbackBuffer", "createBuffer",
     "createTexture"}
UncheckedFactories == {"createRootSignature", "createRTVHeap", "createSRVHeap"}
Factories ==
    CheckedFactories \cup UncheckedFactories
        \cup {"createCommandList", "createPipelineState"}

\* enum BlendModeInt
BLEND_NONE == 0
BLEND_ALPHA == 1
BLEND_ADDITIVE == 2
BLEND_MULTIPLY == 3
BLEND_PREMULTIPLIED_ALPHA == 4

\* blendMode is a jint the caller chooses: the five modes and the values
\* next to them.
BlendModes == (BLEND_NONE - 1)..(BLEND_PREMULTIPLIED_ALPHA + 1)

\* D3D12_RENDER_TARGET_BLEND_DESC desc = {}: a field no case sets keeps the
\* zero of the initialisation, written "unset" for the enumerations.
BlendDesc(enable, src, dest, blendOp, srcAlpha, destAlpha, blendOpAlpha) ==
    [BlendEnable |-> enable, SrcBlend |-> src, DestBlend |-> dest,
     BlendOp |-> blendOp, SrcBlendAlpha |-> srcAlpha,
     DestBlendAlpha |-> destAlpha, BlendOpAlpha |-> blendOpAlpha,
     LogicOpEnable |-> FALSE]

BlendDisabled ==
    BlendDesc(FALSE, "unset", "unset", "unset", "unset", "unset", "unset")

\* A table with the additive and the premultiplied row exchanged.
GetBlendDescExchanged(blendMode) ==
    CASE blendMode = BLEND_ALPHA ->
           BlendDesc(TRUE, "SRC_ALPHA", "INV_SRC_ALPHA", "ADD",
                     "ONE", "INV_SRC_ALPHA", "ADD")
      [] blendMode = BLEND_ADDITIVE ->
           BlendDesc(TRUE, "ONE", "INV_SRC_ALPHA", "ADD",
                     "ONE", "INV_SRC_ALPHA", "ADD")
      [] blendMode = BLEND_MULTIPLY ->
           BlendDesc(TRUE, "DEST_COLOR", "ZERO", "ADD",
                     "DEST_ALPHA", "ZERO", "ADD")
      [] blendMode = BLEND_PREMULTIPLIED_ALPHA ->
           BlendDesc(TRUE, "SRC_ALPHA", "ONE", "ADD", "ONE", "ONE", "ADD")
      [] OTHER -> BlendDisabled

\* GetBlendDesc(blendMode): the switch over the five modes; any other value
\* leaves the zero-initialised descriptor.
GetBlendDesc(blendMode) ==
    CASE blendMode = BLEND_NONE -> BlendDisabled
      [] blendMode = BLEND_ALPHA ->
           BlendDesc(TRUE, "SRC_ALPHA", "INV_SRC_ALPHA", "ADD",
                     "ONE", "INV_SRC_ALPHA", "ADD")
      [] blendMode = BLEND_ADDITIVE ->
           BlendDesc(TRUE, "SRC_ALPHA", "ONE", "ADD", "ONE", "ONE", "ADD")
      [] blendMode = BLEND_MULTIPLY ->
           BlendDesc(TRUE, "DEST_COLOR", "ZERO", "ADD",
                     "DEST_ALPHA", "ZERO", "ADD")
      [] blendMode = BLEND_PREMULTIPLIED_ALPHA ->
           BlendDesc(TRUE, "ONE", "INV_SRC_ALPHA", "ADD",
                     "ONE", "INV_SRC_ALPHA", "ADD")
      [] OTHER -> BlendDisabled

\* The handles a call is made with where it expects a device or another
\* object: zero, the handle issued for such an object (released or not) or
\* one never issued.
HandleChoices(o) == {0, o, UnknownHandle}

FactoryCall(name, dh, oh, creation, nf, no, blendMode) ==
    [name |-> name, deviceHandle |-> dh, otherHandle |-> oh,
     creation |-> creation, numFormats |-> nf, numOffsets |-> no,
     blendMode |-> blendMode]

FactoryCalls ==
    {FactoryCall(n, dh, 0, c, 0, 0, 0) :
        n \in CheckedFactories \cup UncheckedFactories,
        dh \in HandleChoices(DeviceObj), c \in {"ok", "fails"}}
    \cup {FactoryCall("createCommandList", dh, oh, c, 0, 0, 0) :
        dh \in HandleChoices(DeviceObj), oh \in HandleChoices(AllocObj),
        c \in {"ok", "fails"}}
    \cup {FactoryCall("createPipelineState", dh, oh, c, nf, no, blendMode) :
        dh \in HandleChoices(DeviceObj), oh \in HandleChoices(RootSigObj),
        c \in {"ok", "fails"}, nf \in 0..MaxAttrs, no \in 0..MaxAttrs,
        blendMode \in BlendModes}

InitFactory ==
    /\ \E gone \in SUBSET {DeviceObj, AllocObj, RootSigObj} :
          objects_ = [h \in FactoryObjects \ gone |-> h]
    /\ nextHandle_ = UnknownHandle
    /\ mutex_ = 0
    /\ refCount = [o \in 1..UnknownHandle |->
                      IF o \in FactoryObjects THEN 2 ELSE 0]
    /\ objKind = [o \in 1..UnknownHandle |->
                     IF o \in FactoryObjects THEN FactoryKind(o) ELSE "none"]
    /\ nextObj = UnknownHandle
    /\ ThreadsIdle
    /\ NoHistory
    /\ GpuIdle(FactoryObjects)
    /\ call \in FactoryCalls
    /\ Fresh

\* The entry point of the call is entered.
Entered(name) ==
    /\ call.name = name
    /\ result = <<>>
    /\ ~outOfBounds

\* return 0
ReturnNull ==
    /\ result' = Append(result, 0)
    /\ UNCHANGED <<regVars, comVars>>

\* A store that does not look at the pointer.
StoreUnchecked(obj, kind) ==
    /\ nextHandle_' = NextHandleValue(nextHandle_)
    /\ objects_' = Insert(objects_, nextHandle_, obj)
    /\ result' = <<nextHandle_>>
    /\ UNCHANGED <<mutex_, comVars>>

\* HandleManager::store(obj) run by the only thread, obj being null or the
\* object the driver has just created with its creation reference.
Store(obj, kind) ==
    IF obj = NULL
    THEN ReturnNull
    ELSE /\ refCount' = AddRef([refCount EXCEPT ![obj] = 1], obj)
         /\ objKind' = [objKind EXCEPT ![obj] = kind]
         /\ nextObj' = nextObj + 1
         /\ nextHandle_' = NextHandleValue(nextHandle_)
         /\ objects_' = Insert(objects_, nextHandle_, obj)
         /\ result' = Append(result, nextHandle_)
         /\ UNCHANGED mutex_

\* IID_PPV_ARGS(&obj) after the creation: the new object, or null.
Created == IF call.creation = "ok" THEN nextObj ELSE NULL

FactoryFrame ==
    UNCHANGED <<call, outOfBounds, resVars, psoDesc, thrVars, histVars,
                gpuVars>>

\* if (!device) return 0;
\* if (FAILED(device->Create...(..., IID_PPV_ARGS(&obj)))) return 0;
\* return STORE_HANDLE(obj);
CheckedFactory(name, kind) ==
    /\ Entered(name)
    /\ LET device == Lookup(objects_, call.deviceHandle)
       IN IF device = NULL
          THEN ReturnNull
          ELSE IF Created = NULL
               THEN ReturnNull
               ELSE Store(Created, kind)
    /\ FactoryFrame

\* if (!device) return 0;
\* obj = Create...(device);   (null when the creation fails)
\* return STORE_HANDLE(obj);
UncheckedFactory(name, kind) ==
    /\ Entered(name)
    /\ LET device == Lookup(objects_, call.deviceHandle)
       IN IF device = NULL
          THEN ReturnNull
          ELSE Store(Created, kind)
    /\ FactoryFrame

CreateCommandQueue == CheckedFactory("createCommandQueue", "queue")
CreateCommandAllocator == CheckedFactory("createCommandAllocator", "allocator")
CreateFence == CheckedFactory("createFence", "fence")
CreateRenderTarget == CheckedFactory("createRenderTarget", "resource")
CreateReadbackBuffer == CheckedFactory("createReadbackBuffer", "resource")
CreateBuffer == CheckedFactory("createBuffer", "resource")
CreateTexture == CheckedFactory("createTexture", "resource")
CreateRootSignature == UncheckedFactory("createRootSignature", "rootSignature")
CreateRTVHeap == UncheckedFactory("createRTVHeap", "heap")
CreateSRVHeap == UncheckedFactory("createSRVHeap", "heap")

\* createCommandList(deviceHandle, allocatorHandle)
CreateCommandList ==
    /\ Entered("createCommandList")
    /\ LET device == Lookup(objects_, call.deviceHandle)
           allocator == Lookup(objects_, call.otherHandle)
       IN IF device = NULL \/ allocator = NULL
          THEN ReturnNull
          ELSE IF Created = NULL
               THEN ReturnNull
               ELSE Store(Created, "list")
    /\ FactoryFrame

\* createPipelineState(deviceHandle, rootSigHandle, ..., blendMode, formats,
\* offsets, stride): psoDesc.BlendState.RenderTarget[0] is
\* GetBlendDesc(blendMode); numAttrs is the length of formats, and the loop reads
\* formatsData[i] and offsetsData[i] for every i < numAttrs without looking
\* at the length of offsets.  A read past the end of offsets either stops
\* the process or yields some value, with which the call goes on.
CreatePipelineState ==
    /\ Entered("createPipelineState")
    /\ LET device == Lookup(objects_, call.deviceHandle)
           rootSig == Lookup(objects_, call.otherHandle)
           numAttrs == call.numFormats
           pastEnd == \E i \in 0..(numAttrs - 1) : i >= call.numOffsets
       IN IF device = NULL \/ rootSig = NULL
          THEN ReturnNull /\ UNCHANGED <<outOfBounds, psoDesc>>
          ELSE \/ /\ outOfBounds' = pastEnd
                  /\ psoDesc' = [built |-> TRUE,
                                 NumElements |-> numAttrs,
                                 IndependentBlendEnable |-> FALSE,
                                 RenderTarget0 |-> GetBlendDesc(call.blendMode)]
                  /\ IF Created = NULL
                     THEN ReturnNull
                     ELSE Store(Created, "pipelineState")
               \/ /\ pastEnd
                  /\ outOfBounds' = TRUE
                  /\ UNCHANGED <<result, psoDesc, regVars, comVars>>
    /\ UNCHANGED <<call, resVars, thrVars, histVars, gpuVars>>

NextFactory ==
    \/ CreateCommandQueue
    \/ CreateCommandAllocator
    \/ CreateCommandList
    \/ CreateFence
    \/ CreateRootSignature
    \/ CreateRTVHeap
    \/ CreateSRVHeap
    \/ CreateRenderTarget
    \/ CreateReadbackBuffer
    \/ CreateBuffer
    \/ CreateTexture
    \/ CreatePipelineState

SpecFactory == InitFactory /\ [][NextFactory]_vars

FactoryTypeOK ==
    /\ call \in FactoryCalls
    /\ result \in {<<>>} \cup {<<h>> : h \in 0..UnknownHandle}
    /\ outOfBounds \in BOOLEAN
    /\ nextHandle_ \in {UnknownHandle, UnknownHandle + 1}

\* ------------------------------------------------------------------------
\* C12  A factory call whose device handle is zero, unknown or released, or
\* whose underlying creation fails, returns handle 0 and leaves the
\* registry's map and next-handle counter as they were.
DeviceInvalid == Lookup(objects_, call.deviceHandle) = NULL

C12_FailedFactoryReturnsNull ==
    [][(/\ call.name \in Factories
        /\ result = <<>>
        /\ result' # <<>>
        /\ DeviceInvalid \/ call.creation = "fails")
       => (result' = <<0>> /\ UNCHANGED <<objects_, nextHandle_>>)]_vars

\* createRTVHeap has returned 0 for a live device whose CreateDescriptorHeap
\* failed, and the registry still holds what it held.
C12_Witness ==
    /\ call.name = "createRTVHeap"
    /\ ~DeviceInvalid
    /\ call.creation = "fails"
    /\ result = <<0>>
    /\ nextHandle_ = UnknownHandle

\* ------------------------------------------------------------------------
\* C16  createPipelineState called with formats and offsets arrays of
\* different lengths returns the null handle and reads no element past the
\* end of either array.
C16_MismatchedArraysReturnNull ==
    (/\ call.name = "createPipelineState"
     /\ call.numFormats # call.numOffsets)
    => (/\ ~outOfBounds
        /\ result \in {<<>>, <<0>>})

-----------------------------------------------------------------------------
(* SpecEntry: one call of a command list, queue or fence entry point, made *)
(* after the creations with any of the handles it takes valid, zero,       *)
(* released or never issued.  Nobody else calls: a wait that blocks stays  *)
(* blocked.                                                                *)

EntryHandles == 0..UnknownHandle

EntryCalls ==
    {EntryCall("resetCommandList", lh, ah, 0) :
        lh \in HandleChoices(ListObj), ah \in HandleChoices(AllocObj)}
    \cup {EntryCall("executeCommandList", qh, lh, 0) :
        qh \in HandleChoices(QueueObj), lh \in HandleChoices(ListObj)}
    \cup {EntryCall("signalFence", qh, fh, v) :
        qh \in HandleChoices(QueueObj), fh \in HandleChoices(FenceObj),
        v \in FenceValues}
    \cup {EntryCall("waitForFence", fh, 0, v) :
        fh \in HandleChoices(FenceObj), v \in FenceValues}
    \cup {EntryCall("getFenceCompletedValue", fh, 0, 0) :
        fh \in HandleChoices(FenceObj)}

InitEntry ==
    /\ \E gone \in SUBSET {QueueObj, AllocObj, ListObj, FenceObj} :
          GpuStart(gone)
    /\ call \in EntryCalls
    /\ Fresh

NextEntry ==
    \/ \E lh, ah \in EntryHandles : ResetCommandList(lh, ah)
    \/ \E qh, lh \in EntryHandles : ExecuteCommandList(qh, lh)
    \/ \E qh, fh \in EntryHandles, v \in FenceValues : SignalFence(qh, fh, v)
    \/ \E fh \in EntryHandles, v \in FenceValues : WaitForFence(fh, v)
    \/ \E fh \in EntryHandles : GetFenceCompletedValue(fh)
    \/ WaitCreateEvent
    \/ GpuRetire

SpecEntry == InitEntry /\ [][NextEntry]_vars

EntryTypeOK ==
    /\ call \in EntryCalls
    /\ result \in {<<>>} \cup {<<v>> : v \in FenceValues}
    /\ Len(queue) <= 1

\* ------------------------------------------------------------------------
\* C13  A non-factory entry point given a zero, released or never issued
\* handle for an object it needs returns at once, with 0 where it returns a
\* value, and changes neither the registry nor any object: the list keeps
\* its state, nothing is enqueued, the caller is not blocked.
HandlesNeeded ==
    IF call.name \in {"waitForFence", "getFenceCompletedValue"}
    THEN {call.h1}
    ELSE {call.h1, call.h2}

InvalidCall == \E h \in HandlesNeeded : Lookup(objects_, h) = NULL

C13_InvalidHandleNoOp ==
    [][(InvalidCall /\ result = <<>>)
       => (/\ result' = <<0>>
           /\ UNCHANGED <<regVars, comVars, gpuVars>>)]_vars

\* signalFence has returned from a call with a live queue and a released
\* fence, and the queue is empty.
C13_Witness ==
    /\ call.name = "signalFence"
    /\ call.h1 = QueueObj /\ Found(objects_, QueueObj)
    /\ call.h2 = FenceObj /\ ~Found(objects_, FenceObj)
    /\ result = <<0>>
    /\ queue = <<>>

-----------------------------------------------------------------------------
(* SpecDescriptor: one call of an entry point that addresses a slot of an  *)
(* RTV heap by index, made with live handles.                              *)

\* Capacity of a heap (numDescriptors of createRTVHeap).
MaxDescriptors == 2

\* What GetDescriptorHandleIncrementSize answers depends on the driver.
DescriptorSizes == {8, 32}

\* The index is a jint the caller chooses.  (A negative one is converted to
\* UINT and lands beyond any heap; the model leaves it out.)
SlotIndexes == 0..(MaxDescriptors + 1)

SlotCalls ==
    [name : {"createRTV", "setRenderTarget", "clearRenderTarget"},
     capacity : 1..MaxDescriptors,
     index : SlotIndexes,
     size : DescriptorSizes]

InitDescriptor ==
    /\ GpuStart({})
    /\ call \in SlotCalls
    /\ Fresh

\* handle = heap->GetCPUDescriptorHandleForHeapStart();
\* handle.ptr += index * rtvDescriptorSize;
\* as an offset from the heap start.
DescriptorOffset(index, rtvDescriptorSize) == index * rtvDescriptorSize

\* The offsets of the heap's slots.
HeapSlots(capacity, rtvDescriptorSize) ==
    {DescriptorOffset(i, rtvDescriptorSize) : i \in 0..(capacity - 1)}

\* The descriptor at the computed address is written (createRTV) or bound
\* (setRenderTarget, clearRenderTarget); result is its offset.
AddressSlot(name) ==
    /\ Entered(name)
    /\ LET offset == DescriptorOffset(call.index, call.size)
       IN /\ result' = <<offset>>
          /\ outOfBounds' = (offset \notin HeapSlots(call.capacity, call.size))
    /\ UNCHANGED <<call, resVars, psoDesc, regVars, comVars, thrVars,
                   histVars, gpuVars>>

CreateRTV == AddressSlot("createRTV")
SetRenderTarget == AddressSlot("setRenderTarget")
ClearRenderTarget == AddressSlot("clearRenderTarget")

NextDescriptor ==
    \/ CreateRTV
    \/ SetRenderTarget
    \/ ClearRenderTarget

SpecDescriptor == InitDescriptor /\ [][NextDescriptor]_vars

\* ------------------------------------------------------------------------
\* C14  For a heap of capacity N, createRTV, setRenderTarget and
\* clearRenderTarget only ever address a slot with 0 <= index < N.
C14_SlotWithinHeap ==
    result # <<>> => result[1] \in HeapSlots(call.capacity, call.size)

-----------------------------------------------------------------------------
(* SpecBarrier: the calls that record barriers and commands using a        *)
(* resource, on a list that is recording, in the order the GPU will run    *)
(* them.  resState follows the transitions as the runtime applies them;    *)
(* declared is the bookkeeping of a caller that starts from the documented *)
(* creation states and notes the stateAfter of every barrier it records.   *)

Resources == {"renderTarget", "readbackBuffer", "texture", "uploadBuffer"}
ResourceStates == {"renderTarget", "copySource", "copyDest", "genericRead"}

\* The initial state handed to CreateCommittedResource.
CreationAllCopyDest(r) == "copyDest"
CreationState(r) ==
    CASE r = "renderTarget" -> "renderTarget"
      [] r = "readbackBuffer" -> "copyDest"
      [] r = "texture" -> "copyDest"
      [] r = "uploadBuffer" -> "genericRead"

\* The creation states as documented for the caller.
DocumentedState(r) ==
    CASE r = "renderTarget" -> "renderTarget"
      [] r = "readbackBuffer" -> "copyDest"
      [] r = "texture" -> "copyDest"
      [] r = "uploadBuffer" -> "genericRead"

InitBarrier ==
    /\ GpuStart({})
    /\ call = Nothing
    /\ result = <<>>
    /\ outOfBounds = FALSE
    /\ psoDesc = NoDesc
    /\ resState = [r \in Resources |-> CreationState(r)]
    /\ declared = [r \in Resources |-> DocumentedState(r)]
    /\ mismatch = FALSE
    /\ disciplined = TRUE

BarrierFrame ==
    UNCHANGED <<result, outOfBounds, psoDesc, regVars, comVars, thrVars,
                histVars, gpuVars>>

\* resourceBarrier(commandListHandle, resourceHandle, stateBefore,
\* stateAfter): a transition of all subresources, the two states passed on
\* as given.  The runtime expects stateBefore to be the resource's state.
ResourceBarrier(r, stateBefore, stateAfter) ==
    /\ call' = [name |-> "resourceBarrier"]
    /\ mismatch' = (mismatch \/ resState[r] # stateBefore)
    /\ resState' = [resState EXCEPT ![r] = stateAfter]
    /\ disciplined' = (disciplined /\ declared[r] = stateBefore)
    /\ declared' = [declared EXCEPT ![r] = stateAfter]
    /\ BarrierFrame

\* setRenderTarget, clearRenderTarget and drawInstanced with the view of r
\* bound: the commands write r as a render target.
RenderInto(r) ==
    /\ call' = [name |-> "render"]
    /\ mismatch' = (mismatch \/ resState[r] # "renderTarget")
    /\ disciplined' = (disciplined /\ declared[r] = "renderTarget")
    /\ UNCHANGED <<resState, declared>>
    /\ BarrierFrame

\* copyTextureToBuffer(commandListHandle, textureHandle, bufferHandle,
\* width, height): CopyTextureRegion reads the texture and writes the buffer.
CopyTextureToBuffer(texture, buffer) ==
    /\ call' = [name |-> "copyTextureToBuffer"]
    /\ mismatch' = (\/ mismatch
                    \/ resState[texture] # "copySource"
                    \/ resState[buffer] # "copyDest")
    /\ disciplined' = (/\ disciplined
                       /\ declared[texture] = "copySource"
                       /\ declared[buffer] = "copyDest")
    /\ UNCHANGED <<resState, declared>>
    /\ BarrierFrame

NextBarrier ==
    \/ \E r \in Resources, stateBefore, stateAfter \in ResourceStates :
          ResourceBarrier(r, stateBefore, stateAfter)
    \/ RenderInto("renderTarget")
    \/ \E texture \in {"renderTarget", "texture"},
          buffer \in {"readbackBuffer", "uploadBuffer"} :
          CopyTextureToBuffer(texture, buffer)

SpecBarrier == InitBarrier /\ [][NextBarrier]_vars

\* ------------------------------------------------------------------------
\* C15  Every command finds the resource it uses in the state it expects:
\* no recorded sequence reaches a command whose resource state mismatches.
C15_NoSequenceMismatches == ~mismatch

\* C15 (amended)  In a sequence whose barriers name the state the caller's
\* bookkeeping holds as stateBefore, and whose commands are recorded only
\* when that bookkeeping holds the state the command expects, every
\* command and every barrier finds the resource in the state it names.
C15_TrackedBarriersPreventMismatch == disciplined => ~mismatch

\* The render target has been moved to copy-source by a barrier and copied
\* to the readback buffer.
C15_Witness ==
    /\ call.name = "copyTextureToBuffer"
    /\ disciplined
    /\ ~mismatch
    /\ resState["renderTarget"] = "copySource"
    /\ resState["readbackBuffer"] = "copyDest"

\* ------------------------------------------------------------------------
\* C17  For each of the five blend modes the descriptor of the pipeline
\* state's render target 0 is the one of the fixed table: 0 = blending
\* disabled, 1 = (src-alpha, inv-src-alpha, add), 2 = (src-alpha, one, add),
\* 3 = (dest-color, zero, add), 4 = (one, inv-src-alpha, add).
BlendTriple(desc) == <<desc.SrcBlend, desc.DestBlend, desc.BlendOp>>

FixedTable ==
    [m \in 1..4 |->
        CASE m = 1 -> <<"SRC_ALPHA", "INV_SRC_ALPHA", "ADD">>
          [] m = 2 -> <<"SRC_ALPHA", "ONE", "ADD">>
          [] m = 3 -> <<"DEST_COLOR", "ZERO", "ADD">>
          [] m = 4 -> <<"ONE", "INV_SRC_ALPHA", "ADD">>]

C17_BlendTable ==
    (psoDesc.built /\ call.blendMode \in 0..4)
    => IF call.blendMode = 0
       THEN ~psoDesc.RenderTarget0.BlendEnable
       ELSE /\ psoDesc.RenderTarget0.BlendEnable
            /\ BlendTriple(psoDesc.RenderTarget0) = FixedTable[call.blendMode]

\* A pipeline state with additive blending has been created.
C17_Witness ==
    /\ psoDesc.built
    /\ call.blendMode = 2
    /\ result # <<>>
    /\ result # <<0>>

-----------------------------------------------------------------------------
(* SpecReadback: the render target is copied to the readback buffer by the *)
(* copy that copyTextureToBuffer records, and readBufferData reads the     *)
(* buffer back.  Memory is modelled byte by byte; a pixel is its four      *)
(* bytes.                                                                  *)

MaxWidth == 2
MaxHeight == 2

\* The colours of the source pixels, as R, G, B, A bytes.
Palette == {<<10, 20, 30, 255>>, <<40, 50, 60, 128>>}

\* A byte of the buffer the copy has not written.
Unwritten == -1

Pixels(width, height) == (0..(width - 1)) \X (0..(height - 1))

ReadbackCalls ==
    UNION {[name : {"readback"}, width : {w}, height : {h},
            texture : [Pixels(w, h) -> Palette]] :
           w \in 1..MaxWidth, h \in 1..MaxHeight}

InitReadback ==
    /\ GpuStart({})
    /\ call \in ReadbackCalls
    /\ Fresh

\* v & ~255
ClearLow8(v) == v - (v % 256)

\* A pitch with no alignment.
TightRowPitch(width) == width * 4

\* copyTextureToBuffer: dstLoc.PlacedFootprint.Footprint.RowPitch =
\* ((width * 4) + 255) & ~255
FootprintRowPitch(width) == ClearLow8((width * 4) + 255)

\* readBufferData: UINT rowPitch = ((width * 4) + 255) & ~255
ReadRowPitch(width) == ClearLow8((width * 4) + 255)

\* The copy executes: CopyTextureRegion writes row y of the texture at byte
\* offset y * RowPitch of the buffer, four bytes a pixel.
CopyTextureRegion ==
    /\ call.name = "readback"
    /\ result = <<>>
    /\ LET rowPitch == FootprintRowPitch(call.width)
           size == call.height * rowPitch
           mapped == [b \in 0..(size - 1) |->
                        LET y == b \div rowPitch
                            k == b % rowPitch
                        IN IF k < call.width * 4
                           THEN call.texture[<<k \div 4, y>>][(k % 4) + 1]
                           ELSE Unwritten]
       IN result' = <<mapped>>
    /\ UNCHANGED <<call, outOfBounds, resVars, psoDesc, regVars, comVars,
                   thrVars, histVars, gpuVars>>

\* readBufferData: D3D12_RANGE readRange = { 0, width * height * 4 }, the
\* bytes the call tells Map it is going to read.
ReadRangeEnd(width, height) == width * height * 4

\* readBufferData(bufferHandle, pixels, width, height):
\* for (y < height) memcpy(pixelData + y * width,
\*                        mapped + y * rowPitch, width * 4);
\* pixelData being jint*, element y * width is at byte y * width * 4.
ReadBufferData ==
    /\ call.name = "readback"
    /\ Len(result) = 1
    /\ LET mapped == result[1]
           rowPitch == ReadRowPitch(call.width)
           bytes == [b \in 0..(call.width * call.height * 4 - 1) |->
                       LET y == b \div (call.width * 4)
                           k == b % (call.width * 4)
                       IN mapped[y * rowPitch + k]]
           pixels == [i \in 0..(call.width * call.height - 1) |->
                        <<bytes[4 * i], bytes[4 * i + 1],
                          bytes[4 * i + 2], bytes[4 * i + 3]>>]
           read == {y * rowPitch + k :
                       y \in 0..(call.height - 1),
                       k \in 0..(call.width * 4 - 1)}
       IN /\ result' = <<mapped, pixels>>
          /\ outOfBounds' =
                (\E b \in read : b >= ReadRangeEnd(call.width, call.height))
    /\ UNCHANGED <<call, resVars, psoDesc, regVars, comVars,
                   thrVars, histVars, gpuVars>>

NextReadback ==
    \/ CopyTextureRegion
    \/ ReadBufferData

SpecReadback == InitReadback /\ [][NextReadback]_vars

\* ------------------------------------------------------------------------
\* C18  Readback round trip: after the copy has placed row y at byte offset
\* y * rowPitch, readBufferData(buffer, out, W, H) yields out[y*W + x] equal
\* to source pixel (x, y) for all x < W, y < H, no padding byte appearing
\* in the output.
C18_ReadbackRoundTrip ==
    (call.name = "readback" /\ Len(result) = 2)
    => \A p \in Pixels(call.width, call.height) :
          result[2][p[2] * call.width + p[1]] = call.texture[p]

\* Two rows of two pixels, not all of one colour, have been read back from
\* a buffer whose rows are padded.
C18_Witness ==
    /\ call.name = "readback"
    /\ Len(result) = 2
    /\ call.width = 2 /\ call.height = 2
    /\ call.texture[<<0, 0>>] # call.texture[<<0, 1>>]
    /\ result[1][call.width * 4] = Unwritten

-----------------------------------------------------------------------------
(* SpecAdapter: isAvailable and then createDevice, called in a fresh       *)
(* process on one machine: the DXGI factory is there or not, and each      *)
(* adapter of the enumeration is a software adapter or not and creates a   *)
(* device at feature level 12_0 or not.  result holds what the two calls   *)
(* returned, in this order.                                                *)

MaxAdapters == 2

JNI_FALSE == 0
JNI_TRUE == 1

Adapters == [software : BOOLEAN, creates : BOOLEAN]

AdapterLists == UNION {[1..n -> Adapters] : n \in 0..MaxAdapters}

Machines == [name : {"machine"}, factory : BOOLEAN, adapters : AdapterLists]

InitAdapter ==
    /\ objects_ = <<>>
    /\ nextHandle_ = FirstHandle
    /\ mutex_ = 0
    /\ refCount = [o \in 1..MaxAdapters |-> 0]
    /\ objKind = [o \in 1..MaxAdapters |-> "none"]
    /\ nextObj = 1
    /\ ThreadsIdle
    /\ NoHistory
    /\ GpuIdle(1..MaxAdapters)
    /\ call \in Machines
    /\ Fresh

\* A loop that tries every adapter, software or not.
RECURSIVE ScanAll(_, _)
ScanAll(adapters, i) ==
    IF i > Len(adapters)
    THEN 0
    ELSE IF adapters[i].creates
         THEN i
         ELSE ScanAll(adapters, i + 1)

\* isAvailable: for (i = 0; EnumAdapters1(i, &adapter) != NOT_FOUND; i++)
\*   if (desc.Flags & DXGI_ADAPTER_FLAG_SOFTWARE) continue;
\*   if (SUCCEEDED(D3D12CreateDevice(...))) return JNI_TRUE;
\* The position (from 1) of the adapter the loop returns at, 0 if the loop
\* runs out.
RECURSIVE IsAvailableLoop(_, _)
IsAvailableLoop(adapters, i) ==
    IF i > Len(adapters)
    THEN 0
    ELSE IF adapters[i].software
         THEN IsAvailableLoop(adapters, i + 1)
         ELSE IF adapters[i].creates
              THEN i
              ELSE IsAvailableLoop(adapters, i + 1)

\* createDevice: the same loop, returning STORE_HANDLE(device).
RECURSIVE CreateDeviceLoop(_, _)
CreateDeviceLoop(adapters, i) ==
    IF i > Len(adapters)
    THEN 0
    ELSE IF adapters[i].software
         THEN CreateDeviceLoop(adapters, i + 1)
         ELSE IF adapters[i].creates
              THEN i
              ELSE CreateDeviceLoop(adapters, i + 1)

AdapterFrame ==
    UNCHANGED <<call, outOfBounds, resVars, psoDesc, thrVars, histVars,
                gpuVars>>

\* isAvailable(): the device it creates is dropped on return.
IsAvailable ==
    /\ call.name = "machine"
    /\ Len(result) = 0
    /\ result' = Append(result,
          IF ~call.factory
          THEN JNI_FALSE
          ELSE IF IsAvailableLoop(call.adapters, 1) # 0
               THEN JNI_TRUE
               ELSE JNI_FALSE)
    /\ UNCHANGED <<regVars, comVars>>
    /\ AdapterFrame

\* createDevice(): the device object is named after the position of the
\* adapter it was created on.
CreateDeviceOnAdapter ==
    /\ call.name = "machine"
    /\ Len(result) = 1
    /\ LET found == CreateDeviceLoop(call.adapters, 1)
       IN IF ~call.factory
          THEN ReturnNull
          ELSE IF found # 0
               THEN Store(found, "device")
               ELSE ReturnNull
    /\ AdapterFrame

NextAdapter ==
    \/ IsAvailable
    \/ CreateDeviceOnAdapter

SpecAdapter == InitAdapter /\ [][NextAdapter]_vars

\* Both calls have returned.
BothReturned == call.name = "machine" /\ Len(result) = 2

\* ------------------------------------------------------------------------
\* C19  isAvailable() returns true if and only if createDevice() returns a
\* non-zero handle, for every adapter list.
C19_AvailableIffDeviceCreated ==
    BothReturned => ((result[1] = JNI_TRUE) <=> (result[2] # 0))

\* A machine whose first adapter is a software adapter that would create a
\* device and whose second is hardware that creates one: both calls say yes.
C19_Witness ==
    /\ BothReturned
    /\ Len(call.adapters) = 2
    /\ call.adapters[1].software /\ call.adapters[1].creates
    /\ ~call.adapters[2].software /\ call.adapters[2].creates
    /\ result[1] = JNI_TRUE

\* ------------------------------------------------------------------------
\* C20  createDevice returns a device for the first adapter, in enumeration
\* order, that is not a software adapter and for which device creation
\* succeeds; never one for a software adapter or a later adapter; and 0
\* when no adapter qualifies.
Qualifies(i) ==
    /\ call.factory
    /\ ~call.adapters[i].software
    /\ call.adapters[i].creates

Qualifying == {i \in 1..Len(call.adapters) : Qualifies(i)}

C20_FirstQualifyingAdapter ==
    BothReturned
    => IF Qualifying = {}
       THEN result[2] = 0 /\ objects_ = <<>>
       ELSE /\ result[2] # 0
            /\ Found(objects_, result[2])
            /\ objects_[result[2]] \in Qualifying
            /\ \A j \in Qualifying : objects_[result[2]] <= j

\* The first hardware adapter fails to create a device, the second one
\* creates it.
C20_Witness ==
    /\ BothReturned
    /\ Len(call.adapters) = 2
    /\ ~call.adapters[1].software /\ ~call.adapters[1].creates
    /\ Qualifies(2)
    /\ result[2] # 0
    /\ objects_[result[2]] = 2

-----------------------------------------------------------------------------
(* The registry's contract, method by method.  C21, C23, C26, C27 and C28  *)
(* are checked under SpecRegistry, C22 under SpecFactory.                  *)

\* The handle values store() has returned so far.
Issued == {h \in Handles : issuedCount[h] > 0}

\* ------------------------------------------------------------------------
\* C21  Over any sequence of store and release calls the handles returned
\* by successful store calls are strictly increasing, starting at 1 and
\* never 0, so a value is not reissued even after it has been released.
C21_HandlesStrictlyIncreasing ==
    [][\A h \in Handles :
         issuedCount'[h] > issuedCount[h]
            => /\ h # 0
               /\ \A g \in Issued : g < h
               /\ (Issued = {} => h = FirstHandle)
               /\ h \notin erased]_vars

\* Handle 1 was issued and released, and the store after that returned 2.
C21_Witness ==
    /\ Issued = {1, 2}
    /\ erased = {1}
    /\ DOMAIN objects_ = {2}
    /\ nextHandle_ = 3

\* ------------------------------------------------------------------------
\* C22  store(null) yields handle 0 and has no effect: no mapping is added,
\* no handle value is consumed and no reference count changes.
StoresNull ==
    /\ call.name \in UncheckedFactories
    /\ ~DeviceInvalid
    /\ call.creation = "fails"

C22_StoreNullNoEffect ==
    [][(StoresNull /\ result = <<>> /\ result' # <<>>)
          => /\ result' = <<0>>
             /\ UNCHANGED <<objects_, nextHandle_, refCount>>]_vars

\* createRootSignature has passed the null pointer of a failed creation to
\* store and returned its 0; the counter stands where it stood.
C22_Witness ==
    /\ call.name = "createRootSignature"
    /\ StoresNull
    /\ result = <<0>>
    /\ nextHandle_ = UnknownHandle
    /\ UnknownHandle \notin DOMAIN objects_

\* ------------------------------------------------------------------------
\* C23  get is a non-owning lookup: for every handle, get(h) leaves the
\* map, the next-handle counter and every reference count unchanged (and
\* yields the mapped object, or null).
C23_GetChangesNothing ==
    [][\A t \in Threads :
         (pc[t] = "get_body" /\ pc'[t] # "get_body")
            => /\ UNCHANGED <<objects_, nextHandle_, refCount>>
               /\ tobj'[t] = Lookup(objects_, th[t])]_vars

\* getFenceCompletedValue holds the object get() found for a live handle,
\* whose count is what store left.
C23_Witness ==
    \E t \in Threads :
        /\ pc[t] = "gf_use"
        /\ tobj[t] # NULL
        /\ Found(objects_, th[t])
        /\ objects_[th[t]] = tobj[t]
        /\ refCount[tobj[t]] = 2

-----------------------------------------------------------------------------
(* SpecSlots: a caller fills and uses one RTV heap, calling createRTV,     *)
(* setRenderTarget and clearRenderTarget with live handles of one device   *)
(* and indexes inside the heap.  result is the log of the calls: the entry *)
(* point, the index passed and the offset from the heap start of the       *)
(* descriptor the call wrote, bound or cleared.                            *)

\* Calls made on the heap in one run.
MaxSlotCalls == 3

RtvHeaps == [name : {"rtvHeap"}, capacity : 1..MaxDescriptors,
             size : DescriptorSizes]

InitSlots ==
    /\ GpuStart({})
    /\ call \in RtvHeaps
    /\ Fresh

\* An address computation that leaves out the increment size.
UnscaledOffset(index, rtvDescriptorSize) == index

\* createRTV: handle.ptr += index * rtvDescriptorSize;
CreateRTVOffset(index, rtvDescriptorSize) == index * rtvDescriptorSize

\* setRenderTarget: handle.ptr += index * rtvDescriptorSize;
SetRenderTargetOffset(index, rtvDescriptorSize) == index * rtvDescriptorSize

\* clearRenderTarget: handle.ptr += index * rtvDescriptorSize;
ClearRenderTargetOffset(index, rtvDescriptorSize) == index * rtvDescriptorSize

SlotUse(name, index, offset) ==
    [name |-> name, index |-> index, offset |-> offset]

\* One of the three entry points has addressed the descriptor at offset.
UseSlot(name, index, offset) ==
    /\ call.name = "rtvHeap"
    /\ Len(result) < MaxSlotCalls
    /\ index < call.capacity
    /\ result' = Append(result, SlotUse(name, index, offset))
    /\ UNCHANGED <<call, outOfBounds, resVars, psoDesc, regVars, comVars,
                   thrVars, histVars, gpuVars>>

\* rtvDescriptorSize = device->GetDescriptorHandleIncrementSize(RTV), asked
\* of the device on every call.
CreateRTVAt(index) ==
    LET rtvDescriptorSize == call.size
    IN UseSlot("createRTV", index, CreateRTVOffset(index, rtvDescriptorSize))

SetRenderTargetAt(index) ==
    LET rtvDescriptorSize == call.size
    IN UseSlot("setRenderTarget", index,
               SetRenderTargetOffset(index, rtvDescriptorSize))

ClearRenderTargetAt(index) ==
    LET rtvDescriptorSize == call.size
    IN UseSlot("clearRenderTarget", index,
               ClearRenderTargetOffset(index, rtvDescriptorSize))

NextSlots ==
    \/ \E index \in SlotIndexes : CreateRTVAt(index)
    \/ \E index \in SlotIndexes : SetRenderTargetAt(index)
    \/ \E index \in SlotIndexes : ClearRenderTargetAt(index)

SpecSlots == InitSlots /\ [][NextSlots]_vars

\* ------------------------------------------------------------------------
\* C24  For one heap and indexes in 0..N-1, createRTV, setRenderTarget and
\* clearRenderTarget address the descriptor at heap start + index *
\* increment size: two calls address the same slot exactly when they pass
\* the same index, whichever of the three entry points they are, and every
\* slot addressed is a slot of the heap.
C24_SameIndexSameSlot ==
    call.name = "rtvHeap"
    => \A i, j \in 1..Len(result) :
          /\ (result[i].index = result[j].index)
                <=> (result[i].offset = result[j].offset)
          /\ result[i].offset \in HeapSlots(call.capacity, call.size)

\* Views were written at the indexes 0 and 1, and setRenderTarget bound the
\* one at index 1.
C24_Witness ==
    /\ call.name = "rtvHeap"
    /\ call.size = 32
    /\ Len(result) = 3
    /\ result[1] = SlotUse("createRTV", 0, 0)
    /\ result[2] = SlotUse("createRTV", 1, 32)
    /\ result[3] = SlotUse("setRenderTarget", 1, 32)

-----------------------------------------------------------------------------
(* SpecWait: the host thread signals and waits while the GPU works off the *)
(* queue.  The GPU makes progress (it retires the head of a non-empty      *)
(* queue), and the host thread, once inside waitForFence, keeps running:   *)
(* it goes on from CreateEvent, and it wakes when its event is set.        *)

NextWait ==
    \/ \E qh, fh \in GpuHandles, v \in FenceValues : SignalFence(qh, fh, v)
    \/ \E fh \in GpuHandles, v \in FenceValues : WaitForFence(fh, v)
    \/ WaitCreateEvent
    \/ WaitForSingleObject
    \/ GpuRetire

FairWait ==
    /\ WF_vars(GpuRetire)
    /\ WF_vars(WaitCreateEvent)
    /\ WF_vars(WaitForSingleObject)

SpecWait == InitGpu /\ [][NextWait]_vars /\ FairWait

\* The thread is inside waitForFence(F, V), and signalFence has been called
\* for F with a value of at least V.
WaitingForSignalled ==
    /\ cpu # "idle"
    /\ sigMax[waitF] > fenceInit[waitF]
    /\ sigMax[waitF] >= waitV

\* ------------------------------------------------------------------------
\* C25  If signalFence(queue, F, V') was enqueued with V' >= V and the GPU
\* finishes all work submitted to the queue, a waitForFence(F, V) call
\* eventually returns, wherever the signal completes relative to the
\* completion check, the event registration and the blocking.
C25_WaitEventuallyReturns == WaitingForSignalled ~> (cpu = "idle")

-----------------------------------------------------------------------------
(* Reference counts and object kinds, under SpecRegistry.                  *)

\* ------------------------------------------------------------------------
\* C26  While a handle is live (stored and not yet released) the object it
\* maps to has a reference count of at least 1, in every reachable state:
\* the registry holds no mapping to an object whose count it has given up.
C26_LiveHandleHoldsCount ==
    \A h \in DOMAIN objects_ : refCount[objects_[h]] >= 1

\* Handle 1 was released and its object is down to the count the registry
\* does not hold; handle 2 is live with the registry's count on its object.
C26_Witness ==
    /\ erased = {1}
    /\ refCount[issuedFor[1]] = 1
    /\ Found(objects_, 2)
    /\ refCount[objects_[2]] = 2

\* The thread is between GET_HANDLE and its use of the object it got.
UsesObject(t) == pc[t] \in {"gf_use", "cf_create"} /\ tobj[t] # NULL

\* ------------------------------------------------------------------------
\* C27  In every interleaving of a thread that resolved an object through
\* get with a thread that calls the destroy function for the same handle,
\* the first thread never uses the object after its reference count has
\* reached zero.
C27_NoUseAfterLastRelease ==
    \A t \in Threads : UsesObject(t) => refCount[tobj[t]] >= 1

\* getFenceCompletedValue is about to use the object of a handle that
\* another thread's destroy released after the get.
C27_Witness ==
    \E t \in Threads :
        /\ pc[t] = "gf_use"
        /\ tobj[t] # NULL
        /\ th[t] \in erased
        /\ issuedFor[th[t]] = tobj[t]
        /\ refCount[tobj[t]] = 1

\* The interface an entry point expects behind its handle.
ExpectedKind(name) ==
    CASE name = "createFence" -> "device"
      [] name = "getFenceCompletedValue" -> "fence"
      [] name = "destroy" -> "fence"

\* The thread's handle is live and maps to an object of another kind than
\* its entry point expects.
OtherKind(t) ==
    IF Found(objects_, th[t])
    THEN objKind[objects_[th[t]]] # ExpectedKind(op[t])
    ELSE FALSE

\* ------------------------------------------------------------------------
\* C28  An entry point given a live handle of an object of another kind
\* than it expects treats the handle as invalid: GET_HANDLE gives it no
\* object to operate on, and destroyFence releases nothing.
C28_WrongKindIsInvalid ==
    [][\A t \in Threads :
         /\ (pc[t] = "get_body" /\ pc'[t] # "get_body" /\ OtherKind(t))
               => tobj'[t] = NULL
         /\ (pc[t] = "rel_body" /\ pc'[t] # "rel_body" /\ OtherKind(t))
               => UNCHANGED <<objects_, refCount>>]_vars

-----------------------------------------------------------------------------
(* The read range of readBufferData, under SpecReadback.                   *)

\* ------------------------------------------------------------------------
\* C29  readBufferData(buffer, out, W, H) reads only bytes inside the read
\* range it declares when mapping the buffer, [0, W*H*4): the last byte it
\* reads, at (H-1) * rowPitch + W*4 - 1, lies below W*H*4.
C29_ReadsInsideDeclaredRange ==
    call.name = "readback" => ~outOfBounds

=============================================================================
